---- MODULE Spec2Model ----
(***************************************************************************)
(* Model of tools/audiosink.py: the AudioSink mixer.  Producer threads     *)
(* call add, remove and the volume setter; PortAudio invokes _worker on    *)
(* its own thread for every open, active stream.                           *)
(***************************************************************************)
EXTENDS Integers, Sequences, FiniteSets, TLC

\* ---------------------------------------------------------------- bounds
MaxLen == 3          \* longest decoded clip, in samples
FrameCount == 2      \* frame_count PortAudio passes to _worker
MaxAdds == 2         \* calls of add in one run
MaxChunks == 3       \* sounds mixed at once in SpecMix

\* ------------------------------------------------------------- constants
DEFAULT_SAMPLE_RATE == 16000
OtherRate == 48000   \* a wav rate that needs resampling
paContinue == 0
paComplete == 1

None == 0            \* _stream = None
Owners == {1, 2}
Producers == {1, 2}  \* threads calling add, remove and the volume setter
StreamIds == 1..MaxAdds
Free == 0            \* the queue lock is not held
Dev(s) == 100 + s    \* lock holder id of the callback thread of stream s

\* ---------------------------------------------------------------- inputs
\* Decoded wav data: ramps so that every sample of a clip is distinct.
Ramp(b, n) == [i \in 1..n |-> b + i - 1]
Bases == {10}
Clips == {Ramp(b, n) : b \in Bases, n \in 1..MaxLen}
Rates == {DEFAULT_SAMPLE_RATE, OtherRate}
Percents == {-1, 0, 50, 100, 101}
\* For the arithmetic of the mix: one-sample sounds over the extremes, odd
\* and negative values, and gains whose fraction is and is not exact.
MixVals == {-32768, -3, 1, 6, 200, 1000, 2000}
MixVolumes == {0, 29, 34, 100}

VARIABLES
    queue,       \* _queue: owner -> list of sounds (a dict: absent keys are absent)
    queue_lock,  \* _queue_lock: Free or the holder
    volume,      \* _volume, kept as the percent p that stands for p / 100
    stream,      \* _stream: None or the handle of the stream add opened last
    streams,     \* PortAudio's streams: handle -> status
    pc,          \* position of each producer thread
    owner,       \* the owner argument of the call a producer is in (0: none)
    data,        \* the local data of add (<<>> outside add)
    ret,         \* the call that finished last and how it ended: "ok" (it
                 \* returned) or the exception it raised to its caller
    nadds,       \* calls of add so far
    wpc,         \* position of each stream's callback
    chunks,      \* the local chunks of _worker, with where each came from
    frame,       \* what each stream's callback returned last
    new_queue,   \* the local new_queue of _worker (<<>> outside the loop)
    player       \* self.player, the PyAudio instance: "running" or "terminated"

vars == <<queue, queue_lock, volume, stream, streams, pc, owner, data, ret,
          nadds, wpc, chunks, frame, new_queue, player>>

\* ------------------------------------------------------------ arithmetic
RECURSIVE SumSeq(_)
SumSeq(s) == IF s = <<>> THEN 0 ELSE Head(s) + SumSeq(Tail(s))

\* numpy's conversion to int16 keeps the low 16 bits.
Wrap16(x) == ((x + 32768) % 65536) - 32768

NoFrame == [data |-> <<>>, flag |-> -1]

\* ------------------------------------------------ add: decode and resample
\* A wav file as wavfile.read returns it: its rate and its samples.
Sounds == [rate : Rates, data : Clips]

\* resampy.resample to DEFAULT_SAMPLE_RATE: the output has
\* floor(n * DEFAULT_SAMPLE_RATE / rate) samples, and an input too short to
\* give one sample raises ValueError.
ResampleLen(n, rate) == (n * DEFAULT_SAMPLE_RATE) \div rate
ResampleFails(d, rate) == ResampleLen(Len(d), rate) < 1
Resample(d, rate) ==
    LET step == rate \div DEFAULT_SAMPLE_RATE
    IN  [i \in 1..ResampleLen(Len(d), rate) |-> d[(i - 1) * step + 1]]

\* ------------------------------------------------------- _worker: capture
\* Mutant: a short sound is not padded.
PadNothing(sound, diff) == sound

\* np.pad(sound, (0, diff), 'constant'): diff zeros after the last sample.
Pad(sound, diff) == sound \o [i \in 1..diff |-> 0]

\* sound[:n], which stops at the end of a shorter sound.
Slice(sound, n) == SubSeq(sound, 1, IF Len(sound) < n THEN Len(sound) ELSE n)

\* The chunk one sound contributes: lines 119-131.
Chunk(sound, F) ==
    IF Len(sound) <= F THEN Slice(Pad(sound, F - Len(sound)), F)
    ELSE Slice(sound, F)

\* Mutant: a sound longer than the frame is kept whole.
RECURSIVE RemaindersKeepWhole(_, _)
RemaindersKeepWhole(sounds, F) ==
    IF sounds = <<>> THEN <<>>
    ELSE LET s == Head(sounds)
         IN  (IF Len(s) > F THEN <<s>> ELSE <<>>)
             \o RemaindersKeepWhole(Tail(sounds), F)

\* Mutant: the remainder starts one sample early.
RECURSIVE RemaindersOverlap(_, _)
RemaindersOverlap(sounds, F) ==
    IF sounds = <<>> THEN <<>>
    ELSE LET s == Head(sounds)
         IN  (IF Len(s) > F THEN <<SubSeq(s, F, Len(s))>> ELSE <<>>)
             \o RemaindersOverlap(Tail(sounds), F)

\* What is left of one owner's sounds: lines 126-129, in list order.
RECURSIVE Remainders(_, _)
Remainders(sounds, F) ==
    IF sounds = <<>> THEN <<>>
    ELSE LET s == Head(sounds)
         IN  (IF Len(s) > F THEN <<SubSeq(s, F + 1, Len(s))>> ELSE <<>>)
             \o Remainders(Tail(sounds), F)

\* Mutant: the chunks are summed first and the sum is divided.
MixSumFirst(cs, v) ==
    LET n == Len(cs)
    IN  [k \in 1..Len(cs[1].data) |->
            Wrap16(((SumSeq([i \in 1..n |-> cs[i].data[k]]) \div n) * v) \div 100)]

\* Mutant: only the head of an owner's list is visited.
VisitedHeadOnly(sounds) == IF sounds = <<>> THEN {} ELSE {1}

\* The sounds of one owner that the inner loop visits (line 118).
Visited(sounds) == 1..Len(sounds)

\* The chunks one owner contributes, each with the place it was taken from.
OwnerChunks(o, sounds, F) ==
    LET idx == Visited(sounds)
        take(i) == [owner |-> o, idx |-> i, data |-> Chunk(sounds[i], F)]
        RECURSIVE upto(_)
        upto(i) == IF i = 0 THEN <<>>
                   ELSE upto(i - 1) \o (IF i \in idx THEN <<take(i)>> ELSE <<>>)
    IN  upto(Len(sounds))

\* chunks after the loop of lines 117-131.  The dict is walked in key order
\* here; the order of the chunks does not change their 16-bit sum.
RECURSIVE ChunksFrom(_, _, _)
ChunksFrom(q, os, F) ==
    IF os = {} THEN <<>>
    ELSE LET o == CHOOSE x \in os : \A y \in os : x <= y
         IN  OwnerChunks(o, q[o], F) \o ChunksFrom(q, os \ {o}, F)

AllChunks(q, F) == ChunksFrom(q, DOMAIN q, F)

\* Mutant: new_queue gets a key for every owner visited.
NewQueueKeepEmpty(q, F) == [o \in DOMAIN q |-> Remainders(q[o], F)]

\* new_queue: a defaultdict gets a key only when something is appended.
NewQueue(q, F) ==
    LET keep == {o \in DOMAIN q : Remainders(q[o], F) # <<>>}
    IN  [o \in keep |-> Remainders(q[o], F)]

\* ----------------------------------------------------------- _worker: mix
\* q * (v / 100) in float64, cast to int16 (toward zero).  v / 100 is exact
\* in binary for 0, 50 and 100, and for 34 no product of a 16-bit q comes
\* out on the other side of an integer; 0.29 does, and for these q the
\* product rounds just below the integer q * 29 / 100.
Under29 == {1, 2, 4, 8} \cup (15..17) \cup (29..35) \cup (57..70)
           \cup (114..141) \cup (228..282)

GainCast(q, v) ==
    LET a == IF q >= 0 THEN q ELSE -q
        exact == (a * v) \div 100
        t == IF v = 29 /\ a % 100 = 0 /\ (a \div 100) \in Under29
             THEN exact - 1 ELSE exact
    IN  Wrap16(IF q >= 0 THEN t ELSE -t)

\* stack = (np.stack(chunks) // len(chunks)) * self._volume: line 137.
Scaled(x, n, v) == GainCast(x \div n, v)

\* np.stack raises ValueError on an empty list and on chunks of unequal
\* length.
StackRaises(cs) ==
    \/ cs = <<>>
    \/ \E i \in 1..Len(cs) : Len(cs[i].data) # Len(cs[1].data)

\* data = np.sum(stack, axis=0, dtype=np.int16): line 140.  The result is
\* as long as the chunks are.
Mix(cs, v) ==
    LET n == Len(cs)
    IN  [k \in 1..Len(cs[1].data) |->
            Wrap16(SumSeq([i \in 1..n |-> Scaled(cs[i].data[k], n, v)]))]

\* ------------------------------------------------------------------ state
TypeOK ==
    /\ DOMAIN queue \subseteq Owners
    /\ queue_lock \in {Free} \cup Producers \cup {Dev(s) : s \in StreamIds}
    /\ volume \in 0..100
    /\ stream \in {None} \cup StreamIds
    /\ streams \in [StreamIds -> {"unopened", "active", "draining", "inactive", "closed"}]
    /\ pc \in [Producers -> {"off", "idle", "add_lock", "add_append", "add_check",
                             "add_open", "rm_del"}]
    /\ nadds \in 0..MaxAdds
    /\ wpc \in [StreamIds -> {"idle", "locked", "swap", "mix"}]
    /\ \A s \in StreamIds : DOMAIN new_queue[s] \subseteq Owners
    /\ player \in {"running", "terminated"}

\* __init__: an empty defaultdict, both locks free, volume=100, no stream.
InitWith(running) ==
    /\ queue = <<>>
    /\ queue_lock = Free
    /\ volume = 100
    /\ stream = None
    /\ streams = [s \in StreamIds |-> "unopened"]
    /\ pc = [p \in Producers |-> IF p \in running THEN "idle" ELSE "off"]
    /\ owner = [p \in Producers |-> 0]
    /\ data = [p \in Producers |-> <<>>]
    /\ ret = [op |-> "init", exc |-> "ok"]
    /\ nadds = 0
    /\ wpc = [s \in StreamIds |-> "idle"]
    /\ chunks = [s \in StreamIds |-> <<>>]
    /\ frame = [s \in StreamIds |-> NoFrame]
    /\ new_queue = [s \in StreamIds |-> <<>>]
    /\ player = "running"

\* add, remove and the setter are called from one thread, or from two.
Init == \E running \in {{1}, Producers} : InitWith(running)

\* Stream.is_active(): true from open until the device has played the last
\* buffer after the callback returned paComplete.
IsActive(s) == streams[s] \in {"active", "draining"}

\* -------------------------------------------------------------------- add
\* Mutant: the ValueError of resample is not caught.
AddReadNoCatch(p, snd, o) ==
    /\ pc[p] = "idle"
    /\ nadds < MaxAdds
    /\ nadds' = nadds + 1
    /\ IF snd.rate # DEFAULT_SAMPLE_RATE /\ ResampleFails(snd.data, snd.rate)
       THEN /\ ret' = [op |-> "add", exc |-> "ValueError"]
            /\ UNCHANGED <<pc, owner, data>>
       ELSE /\ data' = [data EXCEPT ![p] =
                           IF snd.rate # DEFAULT_SAMPLE_RATE
                           THEN Resample(snd.data, snd.rate) ELSE snd.data]
            /\ owner' = [owner EXCEPT ![p] = o]
            /\ pc' = [pc EXCEPT ![p] = "add_lock"]
            /\ ret' = ret
    /\ UNCHANGED <<new_queue, player, queue, queue_lock, volume, stream, streams, wpc, chunks, frame>>

\* Lines 58-64: decode, resample when the rate differs; ValueError returns.
AddRead(p, snd, o) ==
    /\ pc[p] = "idle"
    /\ nadds < MaxAdds
    /\ nadds' = nadds + 1
    /\ IF snd.rate # DEFAULT_SAMPLE_RATE /\ ResampleFails(snd.data, snd.rate)
       THEN /\ ret' = [op |-> "add", exc |-> "ok"]
            /\ UNCHANGED <<pc, owner, data>>
       ELSE /\ data' = [data EXCEPT ![p] =
                           IF snd.rate # DEFAULT_SAMPLE_RATE
                           THEN Resample(snd.data, snd.rate) ELSE snd.data]
            /\ owner' = [owner EXCEPT ![p] = o]
            /\ pc' = [pc EXCEPT ![p] = "add_lock"]
            /\ ret' = ret
    /\ UNCHANGED <<new_queue, player, queue, queue_lock, volume, stream, streams, wpc, chunks, frame>>

\* Line 65: with self._queue_lock.
AddLock(p) ==
    /\ pc[p] = "add_lock"
    /\ queue_lock = Free
    /\ queue_lock' = p
    /\ pc' = [pc EXCEPT ![p] = "add_append"]
    /\ UNCHANGED <<new_queue, player, queue, volume, stream, streams, owner, data, ret, nadds,
                   wpc, chunks, frame>>

\* self._queue[owner].append(data) on a defaultdict(list).
Appended(q, o, d) ==
    [x \in DOMAIN q \cup {o} |->
        IF x = o THEN (IF o \in DOMAIN q THEN q[o] ELSE <<>>) \o <<d>> ELSE q[x]]

\* Line 66, and the end of the with block.
AddAppend(p) ==
    /\ pc[p] = "add_append"
    /\ queue_lock = p
    /\ queue' = Appended(queue, owner[p], data[p])
    /\ queue_lock' = Free
    /\ pc' = [pc EXCEPT ![p] = "add_check"]
    /\ owner' = [owner EXCEPT ![p] = 0]
    /\ data' = [data EXCEPT ![p] = <<>>]
    /\ UNCHANGED <<new_queue, player, volume, stream, streams, ret, nadds, wpc, chunks, frame>>

\* Mutant: the stale handle is dropped without closing the stream.
AddCheckNoClose(p) ==
    /\ pc[p] = "add_check"
    /\ LET stale == stream # None /\ ~IsActive(stream)
           after == IF stale THEN None ELSE stream
       IN  /\ streams' = streams
           /\ stream' = after
           /\ IF after = None
              THEN /\ pc' = [pc EXCEPT ![p] = "add_open"]
                   /\ ret' = ret
              ELSE /\ pc' = [pc EXCEPT ![p] = "idle"]
                   /\ ret' = [op |-> "add", exc |-> "ok"]
    /\ UNCHANGED <<new_queue, player, queue, queue_lock, volume, owner, data, nadds, wpc, chunks, frame>>

\* Lines 68-72: discard a stream the device marked inactive, then test
\* whether one has to be opened.
AddCheck(p) ==
    /\ pc[p] = "add_check"
    /\ IF stream # None /\ streams[stream] = "closed"
       THEN \* is_active() of a stream that terminate() closed raises
            /\ pc' = [pc EXCEPT ![p] = "idle"]
            /\ ret' = [op |-> "add", exc |-> "IOError"]
            /\ UNCHANGED <<stream, streams>>
       ELSE LET stale == stream # None /\ ~IsActive(stream)
                after == IF stale THEN None ELSE stream
            IN  /\ streams' = IF stale THEN [streams EXCEPT ![stream] = "closed"]
                                        ELSE streams
                /\ stream' = after
                /\ IF after = None
                   THEN /\ pc' = [pc EXCEPT ![p] = "add_open"]
                        /\ ret' = ret
                   ELSE /\ pc' = [pc EXCEPT ![p] = "idle"]
                        /\ ret' = [op |-> "add", exc |-> "ok"]
    /\ UNCHANGED <<new_queue, player, queue, queue_lock, volume, owner, data, nadds, wpc, chunks, frame>>

\* Lines 73-79: self._stream = self.player.open(..., stream_callback=self._worker).
\* On a terminated player open raises and _stream stays None.
AddOpen(p) ==
    /\ pc[p] = "add_open"
    /\ IF player = "terminated"
       THEN /\ ret' = [op |-> "add", exc |-> "IOError"]
            /\ UNCHANGED <<stream, streams>>
       ELSE /\ \E s \in StreamIds :
                  /\ streams[s] = "unopened"
                  /\ \A x \in StreamIds : x < s => streams[x] # "unopened"
                  /\ streams' = [streams EXCEPT ![s] = "active"]
                  /\ stream' = s
            /\ ret' = [op |-> "add", exc |-> "ok"]
    /\ pc' = [pc EXCEPT ![p] = "idle"]
    /\ UNCHANGED <<new_queue, player, queue, queue_lock, volume, owner, data, nadds, wpc, chunks, frame>>

\* ----------------------------------------------------------------- remove
\* Mutant: remove enters its body without taking the lock.
RemoveLockNoAcquire(p, o) ==
    /\ pc[p] = "idle"
    /\ owner' = [owner EXCEPT ![p] = o]
    /\ pc' = [pc EXCEPT ![p] = "rm_del"]
    /\ UNCHANGED <<new_queue, player, queue, queue_lock, volume, stream, streams,
                   data, ret, nadds, wpc, chunks, frame>>

\* Line 94: with self._queue_lock.
RemoveLock(p, o) ==
    /\ pc[p] = "idle"
    /\ queue_lock = Free
    /\ queue_lock' = p
    /\ owner' = [owner EXCEPT ![p] = o]
    /\ pc' = [pc EXCEPT ![p] = "rm_del"]
    /\ UNCHANGED <<new_queue, player, queue, volume, stream, streams, data, ret, nadds, wpc, chunks, frame>>

\* Mutant: the whole queue is cleared.
DeletedAll(q, o) == <<>>

\* del(self._queue[owner]).
Deleted(q, o) == [x \in DOMAIN q \ {o} |-> q[x]]

\* The exception del raises for this key, if any.
DelRaises(q, o) == IF o \in DOMAIN q THEN "none" ELSE "KeyError"

\* Lines 95-98: only IndexError is caught; the with block releases the lock
\* whether or not the body raised.
RemoveDel(p) ==
    /\ pc[p] = "rm_del"
    /\ queue_lock = p
    /\ LET exc == DelRaises(queue, owner[p])
       IN  /\ queue' = IF exc = "none" THEN Deleted(queue, owner[p]) ELSE queue
           /\ ret' = [op |-> "remove",
                       exc |-> IF exc \in {"none", "IndexError"} THEN "ok" ELSE exc]
    /\ queue_lock' = Free
    /\ pc' = [pc EXCEPT ![p] = "idle"]
    /\ owner' = [owner EXCEPT ![p] = 0]
    /\ UNCHANGED <<new_queue, player, volume, stream, streams, data, nadds, wpc, chunks, frame>>

\* ----------------------------------------------------------- volume setter
\* Mutant: only the upper limit is asserted.
VolumeAcceptsBelow(value) == value <= 100

\* assert 0 <= value <= 100
VolumeAccepts(value) == 0 <= value /\ value <= 100

\* Lines 86-90.
SetVolume(p, value) ==
    /\ pc[p] = "idle"
    /\ IF VolumeAccepts(value)
       THEN /\ volume' = value
            /\ ret' = [op |-> "volume", exc |-> "ok"]
       ELSE /\ volume' = volume
            /\ ret' = [op |-> "volume", exc |-> "AssertionError"]
    /\ UNCHANGED <<new_queue, player, queue, queue_lock, stream, streams, pc, owner, data, nadds,
                   wpc, chunks, frame>>

\* ---------------------------------------------------------------- _worker
\* Mutant: the callback enters its body without taking the lock.
WorkerLockNoAcquire(s) ==
    /\ streams[s] = "active"
    /\ wpc[s] = "idle"
    /\ wpc' = [wpc EXCEPT ![s] = "locked"]
    /\ UNCHANGED <<new_queue, player, queue, queue_lock, volume, stream, streams,
                   pc, owner, data, ret, nadds, chunks, frame>>

\* Line 104: PortAudio calls back on an active stream; with self._queue_lock.
WorkerLock(s) ==
    /\ streams[s] = "active"
    /\ wpc[s] = "idle"
    /\ queue_lock = Free
    /\ queue_lock' = Dev(s)
    /\ wpc' = [wpc EXCEPT ![s] = "locked"]
    /\ UNCHANGED <<new_queue, player, queue, volume, stream, streams, pc, owner, data, ret, nadds,
                   chunks, frame>>

\* Mutant: the emptiness test never succeeds.
QueueNeverEmpty(q) == FALSE

\* if not self._queue
QueueEmpty(q) == DOMAIN q = {}

\* Lines 106-131: return paComplete on an empty queue (leaving the with
\* block), else run the loop that fills chunks and new_queue.
WorkerCapture(s) ==
    /\ wpc[s] = "locked"
    /\ IF QueueEmpty(queue)
       THEN /\ frame' = [frame EXCEPT ![s] = [data |-> <<>>, flag |-> paComplete]]
            /\ streams' = [streams EXCEPT ![s] = "draining"]
            /\ wpc' = [wpc EXCEPT ![s] = "idle"]
            /\ queue_lock' = Free
            /\ UNCHANGED <<chunks, new_queue>>
       ELSE /\ chunks' = [chunks EXCEPT ![s] = AllChunks(queue, FrameCount)]
            /\ new_queue' = [new_queue EXCEPT ![s] = NewQueue(queue, FrameCount)]
            /\ wpc' = [wpc EXCEPT ![s] = "swap"]
            /\ UNCHANGED <<frame, streams, queue_lock>>
    /\ UNCHANGED <<player, queue, volume, stream, pc, owner, data, ret, nadds>>

\* Mutant: the queue is swapped but the lock is kept for the mix.
WorkerSwapKeepLock(s) ==
    /\ wpc[s] = "swap"
    /\ queue' = new_queue[s]
    /\ new_queue' = [new_queue EXCEPT ![s] = <<>>]
    /\ wpc' = [wpc EXCEPT ![s] = "mix"]
    /\ UNCHANGED <<player, queue_lock, volume, stream, streams, pc, owner, data,
                   ret, nadds, chunks, frame>>

\* Line 133 and the end of the with block: self._queue = new_queue, and
\* the lock is released.
WorkerSwap(s) ==
    /\ wpc[s] = "swap"
    /\ queue' = new_queue[s]
    /\ new_queue' = [new_queue EXCEPT ![s] = <<>>]
    /\ queue_lock' = Free
    /\ wpc' = [wpc EXCEPT ![s] = "mix"]
    /\ UNCHANGED <<player, volume, stream, streams, pc, owner, data, ret, nadds,
                   chunks, frame>>

\* Lines 137-142: mix outside the lock and return paContinue.  An exception
\* in the callback ends the stream.
WorkerMix(s) ==
    /\ wpc[s] = "mix"
    /\ IF StackRaises(chunks[s])
       THEN /\ frame' = [frame EXCEPT ![s] = [data |-> <<>>, flag |-> -2]]
            /\ streams' = [streams EXCEPT ![s] = "draining"]
       ELSE /\ frame' = [frame EXCEPT ![s] =
                           [data |-> Mix(chunks[s], volume),
                            flag |-> paContinue]]
            /\ streams' = streams
    /\ chunks' = [chunks EXCEPT ![s] = <<>>]
    /\ wpc' = [wpc EXCEPT ![s] = "idle"]
    /\ UNCHANGED <<new_queue, player, queue, queue_lock, volume, stream, pc, owner, data, ret, nadds>>

\* The device has played the last buffer of a stream whose callback
\* returned paComplete: is_active() turns false.
DeviceInactive(s) ==
    /\ streams[s] = "draining"
    /\ streams' = [streams EXCEPT ![s] = "inactive"]
    /\ UNCHANGED <<new_queue, player, queue, queue_lock, volume, stream, pc, owner, data, ret, nadds,
                   wpc, chunks, frame>>

\* ---------------------------------------------------------- specification
\* add and remove against the callback and the device.  The volume setter
\* shares no state with them (_volume is read by the mix alone): it runs
\* against the callback in SpecMix.
Next ==
    \/ \E p \in Producers, snd \in Sounds, o \in Owners : AddRead(p, snd, o)
    \/ \E p \in Producers : AddLock(p)
    \/ \E p \in Producers : AddAppend(p)
    \/ \E p \in Producers : AddCheck(p)
    \/ \E p \in Producers : AddOpen(p)
    \/ \E p \in Producers, o \in Owners : RemoveLock(p, o)
    \/ \E p \in Producers : RemoveDel(p)
    \/ \E s \in StreamIds : WorkerLock(s)
    \/ \E s \in StreamIds : WorkerCapture(s)
    \/ \E s \in StreamIds : WorkerSwap(s)
    \/ \E s \in StreamIds : WorkerMix(s)
    \/ \E s \in StreamIds : DeviceInactive(s)

Spec == Init /\ [][Next]_vars

\* The queue after up to MaxChunks calls of add with one-sample sounds.
MixSeqs == UNION {[1..n -> MixVals] : n \in 0..MaxChunks}
MixQueue(a, b) ==
    [o \in {x \in Owners : (x = 1 /\ a # <<>>) \/ (x = 2 /\ b # <<>>)} |->
        LET xs == IF o = 1 THEN a ELSE b IN [i \in 1..Len(xs) |-> <<xs[i]>>]]

\* A sink with sounds queued, its stream open, and a volume already set
\* (volume=... of __init__, or an earlier call of the setter).
InitMix ==
    /\ \E a \in MixSeqs, b \in MixSeqs :
          /\ Len(a) + Len(b) \in 1..MaxChunks
          /\ queue = MixQueue(a, b)
    /\ queue_lock = Free
    /\ volume \in MixVolumes
    /\ stream = 1
    /\ streams = [s \in StreamIds |-> IF s = 1 THEN "active" ELSE "unopened"]
    /\ pc = [p \in Producers |-> IF p = 1 THEN "idle" ELSE "off"]
    /\ owner = [p \in Producers |-> 0]
    /\ data = [p \in Producers |-> <<>>]
    /\ ret = [op |-> "add", exc |-> "ok"]
    /\ nadds = MaxAdds
    /\ wpc = [s \in StreamIds |-> "idle"]
    /\ chunks = [s \in StreamIds |-> <<>>]
    /\ frame = [s \in StreamIds |-> NoFrame]
    /\ new_queue = [s \in StreamIds |-> <<>>]
    /\ player = "running"

NextMix ==
    \/ \E p \in Producers, value \in Percents : SetVolume(p, value)
    \/ \E s \in StreamIds : WorkerLock(s)
    \/ \E s \in StreamIds : WorkerCapture(s)
    \/ \E s \in StreamIds : WorkerSwap(s)
    \/ \E s \in StreamIds : WorkerMix(s)
    \/ \E s \in StreamIds : DeviceInactive(s)

\* The callback draining a queue of arbitrary samples while the volume
\* setter is called.
SpecMix == InitMix /\ [][NextMix]_vars

\* ------------------------------------------------------------------ drain
\* The queue after up to MaxChunks calls of add with clips of every length.
DrainSeqs == UNION {[1..n -> Clips] : n \in 0..MaxChunks}
DrainQueue(a, b) ==
    [o \in {x \in Owners : (x = 1 /\ a # <<>>) \/ (x = 2 /\ b # <<>>)} |->
        IF o = 1 THEN a ELSE b]

\* A sink with clips pending and its stream active, every call of add
\* having returned.
InitDrain ==
    /\ \E a \in DrainSeqs, b \in DrainSeqs :
          /\ Len(a) + Len(b) \in 1..MaxChunks
          /\ queue = DrainQueue(a, b)
    /\ queue_lock = Free
    /\ volume = 100
    /\ stream = 1
    /\ streams = [s \in StreamIds |-> IF s = 1 THEN "active" ELSE "unopened"]
    /\ pc = [p \in Producers |-> IF p = 1 THEN "idle" ELSE "off"]
    /\ owner = [p \in Producers |-> 0]
    /\ data = [p \in Producers |-> <<>>]
    /\ ret = [op |-> "add", exc |-> "ok"]
    /\ nadds = MaxAdds
    /\ wpc = [s \in StreamIds |-> "idle"]
    /\ chunks = [s \in StreamIds |-> <<>>]
    /\ frame = [s \in StreamIds |-> NoFrame]
    /\ new_queue = [s \in StreamIds |-> <<>>]
    /\ player = "running"

\* The number of samples pending in a queue.
PendingSamples(q) ==
    SumSeq([o \in 1..2 |->
              IF o \in DOMAIN q
              THEN SumSeq([i \in 1..Len(q[o]) |-> Len(q[o][i])])
              ELSE 0])

\* One invocation of the callback, step by step.
Callback(s) ==
    \/ WorkerLock(s)
    \/ WorkerCapture(s)
    \/ WorkerSwap(s)
    \/ WorkerMix(s)

NextDrain ==
    \/ \E s \in StreamIds : Callback(s)
    \/ \E s \in StreamIds : DeviceInactive(s)

\* No call of add or remove any more; PortAudio keeps invoking the
\* callback of an active stream, and every invocation runs to its return.
SpecDrain ==
    InitDrain /\ [][NextDrain]_vars /\ WF_vars(\E s \in StreamIds : Callback(s))

\* ------------------------------------------------------------------ close
\* Lines 144-149: self.player.terminate() and nothing else.  PyAudio closes
\* every stream it still has open, which waits for a running callback to
\* return, and shuts PortAudio down; a second terminate() finds no stream
\* and does not raise.  _stream and _queue are left as they are.
Close(p) ==
    /\ pc[p] = "idle"
    /\ \A s \in StreamIds : wpc[s] = "idle"
    /\ streams' = [s \in StreamIds |->
                     IF streams[s] \in {"active", "draining", "inactive"}
                     THEN "closed" ELSE streams[s]]
    /\ player' = "terminated"
    /\ ret' = [op |-> "close", exc |-> "ok"]
    /\ UNCHANGED <<queue, queue_lock, volume, stream, pc, owner, data, nadds,
                   wpc, chunks, frame, new_queue>>

NextShutdown ==
    \/ Next
    \/ \E p \in Producers : Close(p)

\* add, remove and the callback, with close called at any time.
SpecShutdown == Init /\ [][NextShutdown]_vars

\* ------------------------------------------------------ container formats
\* A wav container as handed to add: its rate, channel count, sample width
\* and the stored value of the first channel of each frame.  All are at
\* DEFAULT_SAMPLE_RATE, so that line 59 leaves the decoded data alone.
Channels == {1, 2}
SampleBits == {8, 16}
Wavs == [rate : {DEFAULT_SAMPLE_RATE}, channels : Channels, bits : SampleBits,
         data : Clips]

\* wavfile.read(io.BytesIO(sound)), line 58: any PCM container is read
\* without complaint.  A mono file gives a 1-D array of samples, a file with
\* more channels a 2-D array with one row per frame; 8-bit samples are
\* unsigned bytes.
WavSample(x, bits) == IF bits = 8 THEN x % 256 ELSE x
WavRead(wav) ==
    [rate |-> wav.rate,
     data |-> [i \in 1..Len(wav.data) |->
                 IF wav.channels = 1
                 THEN WavSample(wav.data[i], wav.bits)
                 ELSE [c \in 1..wav.channels |->
                         WavSample(wav.data[i] + c - 1, wav.bits)]]]

\* add called with containers of every format, up to the first callback.
NextFormat ==
    \/ \E p \in Producers, wav \in Wavs, o \in Owners : AddRead(p, WavRead(wav), o)
    \/ \E p \in Producers : AddLock(p)
    \/ \E p \in Producers : AddAppend(p)
    \/ \E p \in Producers : AddCheck(p)
    \/ \E p \in Producers : AddOpen(p)

SpecFormat == Init /\ [][NextFormat]_vars

\* ================================================================== claims

\* C1 (as claimed): per-owner FIFO playback; in each pull only the head
\* buffer of each owner's sequence contributes a chunk, so no sample of a
\* later clip is mixed before the earlier clip of that owner is exhausted.
C1_OnlyHeadContributes ==
    \A s \in StreamIds : \A j \in 1..Len(chunks[s]) : chunks[s][j].idx = 1

\* C1 (amended): in each pull every pending buffer of every owner, not only
\* the head, contributes exactly one chunk: its first FrameCount samples,
\* zero-padded; what is left of the buffers keeps its submission order.
C1_EveryBufferContributes ==
    [][\A s \in StreamIds :
         (wpc[s] = "swap" /\ wpc'[s] = "mix") =>
            LET cs == chunks[s]
                places == {<<o, i>> : o \in DOMAIN queue, i \in 1..MaxAdds + 1}
                pending == {pl \in places : pl[2] <= Len(queue[pl[1]])}
            IN  /\ Len(cs) = Cardinality(pending)
                /\ \A pl \in pending :
                     \E j \in 1..Len(cs) :
                        /\ cs[j].owner = pl[1] /\ cs[j].idx = pl[2]
                        /\ Len(cs[j].data) = FrameCount
                        /\ \A k \in 1..FrameCount :
                             cs[j].data[k] =
                                IF k <= Len(queue[pl[1]][pl[2]])
                                THEN queue[pl[1]][pl[2]][k] ELSE 0
                /\ \A o \in DOMAIN queue' :
                     \A a, b \in 1..Len(queue'[o]) :
                        a < b =>
                          \E i, j \in 1..Len(queue[o]) :
                             /\ i < j
                             /\ queue'[o][a] = SubSeq(queue[o][i], FrameCount + 1, Len(queue[o][i]))
                             /\ queue'[o][b] = SubSeq(queue[o][j], FrameCount + 1, Len(queue[o][j]))
      ]_vars

\* C1 witness: a pull has captured a chunk from the second buffer of an owner.
C1_Witness ==
    \E s \in StreamIds :
       /\ wpc[s] = "mix"
       /\ \E j \in 1..Len(chunks[s]) : chunks[s][j].idx = 2

\* C2: remove for an owner with no entry in the queue completes without
\* raising, releases the queue lock and leaves the queue unchanged.
C2_AbsentRemoveIsNoOp ==
    [][\A p \in Producers :
         (pc[p] = "rm_del" /\ owner[p] \notin DOMAIN queue /\ pc'[p] = "idle") =>
            /\ ret' = [op |-> "remove", exc |-> "ok"]
            /\ queue_lock' = Free
            /\ queue' = queue
      ]_vars

\* C3: a clip appended by add and never cancelled is eventually played,
\* also when add runs after the callback returned paComplete and before
\* the device marked the stream inactive.  Hence, whenever no add is in
\* progress and a clip is pending, some stream is still being pulled.
C3_PendingClipIsPulled ==
    ((\A p \in Producers : pc[p] \in {"off", "idle", "rm_del"}) /\ ~QueueEmpty(queue))
       => \E s \in StreamIds : streams[s] = "active"

\* C4 (as claimed): at most one stream is opened and not yet closed, and it
\* is the one _stream refers to, also with two producer threads in add.
C4_AtMostOneSession ==
    LET open == {s \in StreamIds : streams[s] \in {"active", "draining", "inactive"}}
    IN  /\ Cardinality(open) <= 1
        /\ \A s \in open : stream = s

\* C4 (amended): when every call is issued from one thread (the second
\* producer never runs), at most one stream is opened and not yet closed,
\* and no open stream's handle has been overwritten.
C4_AtMostOneSessionOneProducer ==
    LET open == {s \in StreamIds : streams[s] \in {"active", "draining", "inactive"}}
    IN  pc[2] = "off" =>
          /\ Cardinality(open) <= 1
          /\ \A s \in open : stream = s
          /\ stream # None => stream \in open

\* C4 witness: with one producer thread, a second stream is open after the
\* first one was closed.
C4_Witness ==
    /\ pc[2] = "off"
    /\ streams[1] = "closed"
    /\ streams[2] = "active"
    /\ stream = 2

\* C5: a pull that finds the queue empty returns zero samples with
\* paComplete and leaves the queue empty, and that stream's callback is not
\* invoked again.
C5_EmptyQueueTerminates ==
    [][\A s \in StreamIds :
         /\ (wpc[s] = "locked" /\ DOMAIN queue = {} /\ wpc'[s] # "locked") =>
               /\ frame'[s] = [data |-> <<>>, flag |-> paComplete]
               /\ DOMAIN queue' = {}
               /\ wpc'[s] = "idle"
               /\ streams'[s] = "draining"
         /\ (frame[s].flag = paComplete) =>
               /\ wpc'[s] = "idle"
               /\ frame'[s] = frame[s]
               /\ streams'[s] # "active"
      ]_vars

\* C5 witness: a callback has returned paComplete on an empty queue.
C5_Witness ==
    \E s \in StreamIds :
       /\ frame[s] = [data |-> <<>>, flag |-> paComplete]
       /\ streams[s] = "draining"
       /\ DOMAIN queue = {}

\* C6: remove(A) leaves the buffers of every other owner B as they were,
\* whether or not A has an entry.
C6_RemoveLeavesOthers ==
    [][\A p \in Producers :
         (pc[p] = "rm_del" /\ pc'[p] = "idle") =>
            \A b \in Owners \ {owner[p]} :
               /\ (b \in DOMAIN queue') = (b \in DOMAIN queue)
               /\ b \in DOMAIN queue => queue'[b] = queue[b]
      ]_vars

\* C6 witness: remove(1) has deleted owner 1's entry while owner 2 has a
\* pending buffer.
C6_Witness ==
    /\ \A p \in Producers : pc[p] = "idle"
    /\ ret = [op |-> "remove", exc |-> "ok"]
    /\ 1 \notin DOMAIN queue
    /\ 2 \in DOMAIN queue

\* C7: every captured chunk has exactly FrameCount samples, those of its
\* buffer followed by zeros, and a callback that returns paContinue returns
\* exactly FrameCount samples.
C7_FrameSize ==
    [][\A s \in StreamIds :
         /\ (wpc[s] = "swap" /\ wpc'[s] = "mix") =>
               \A j \in 1..Len(chunks[s]) :
                  LET c == chunks[s][j]
                      src == queue[c.owner][c.idx]
                  IN  /\ Len(c.data) = FrameCount
                      /\ \A k \in 1..Len(c.data) :
                            c.data[k] = IF k <= Len(src) THEN src[k] ELSE 0
         /\ (wpc[s] = "mix" /\ wpc'[s] = "idle" /\ frame'[s].flag = paContinue) =>
               Len(frame'[s].data) = FrameCount
      ]_vars

\* C7 witness: a callback returned paContinue with a frame whose last
\* sample is padding.
C7_Witness ==
    \E s \in StreamIds :
       /\ frame[s].flag = paContinue
       /\ Len(frame[s].data) = FrameCount
       /\ frame[s].data[FrameCount] = 0
       /\ frame[s].data[1] # 0

\* C8 (as claimed): each output sample equals the sum of the chunks'
\* samples divided by their number n, times volume / 100; stated up to
\* rounding: the output is less than 1 away from sum * volume / (100 * n).
C8_MixIsScaledAverage ==
    [][\A s \in StreamIds :
         (wpc[s] = "mix" /\ wpc'[s] = "idle" /\ frame'[s].flag = paContinue) =>
            LET cs == chunks[s]
                n == Len(cs)
            IN  \A k \in 1..Len(frame'[s].data) :
                   LET sum == SumSeq([i \in 1..n |-> cs[i].data[k]])
                       d == frame'[s].data[k] * 100 * n - sum * volume
                   IN  -(100 * n) < d /\ d < 100 * n
      ]_vars

\* C8 (amended): each output sample is the 16-bit sum, over the n chunks,
\* of floor(chunk[k] / n) * (volume / 100) computed in floating point and
\* truncated toward zero; it is sum / n when every chunk[k] is a multiple
\* of n, the volume is 100 and sum / n fits 16 bits (1000 and 2000 give 1500).
C8_MixIsSumOfScaledChunks ==
    [][\A s \in StreamIds :
         (wpc[s] = "mix" /\ wpc'[s] = "idle" /\ frame'[s].flag = paContinue) =>
            LET cs == chunks[s]
                n == Len(cs)
            IN  \A k \in 1..FrameCount :
                   LET sum == SumSeq([i \in 1..n |-> cs[i].data[k]])
                       out == frame'[s].data[k]
                   IN  /\ out = Wrap16(SumSeq([i \in 1..n |->
                                     GainCast(cs[i].data[k] \div n, volume)]))
                       /\ ( /\ \A i \in 1..n : cs[i].data[k] % n = 0
                            /\ volume = 100
                            /\ sum \div n \in -32768..32767 )
                          => out = sum \div n
      ]_vars

\* C8 witness: 1000 and 2000 mixed at volume 100 gave 1500.
C8_Witness ==
    \E s \in StreamIds :
       /\ frame[s].flag = paContinue
       /\ frame[s].data[1] = 1500
       /\ volume = 100
       /\ DOMAIN queue = {}

\* C9: the volume setter fails on a percent outside 0..100 and leaves
\* _volume as it was; on a percent in 0..100 it succeeds and stores
\* percent / 100.
C9_VolumeSetter ==
    [][\A p \in Producers : \A value \in Percents :
         SetVolume(p, value) =>
            IF value < 0 \/ value > 100
            THEN /\ volume' = volume
                 /\ ret' = [op |-> "volume", exc |-> "AssertionError"]
            ELSE /\ volume' = value
                 /\ ret' = [op |-> "volume", exc |-> "ok"]
      ]_vars

\* C9 witness: the setter stored 50 and then rejected an out-of-range
\* percent, the stored 50 unchanged.
C9_Witness ==
    /\ ret = [op |-> "volume", exc |-> "AssertionError"]
    /\ volume = 50

\* C10: add of a clip whose rate is not the canonical one and whose
\* resampling fails returns without raising, leaves the queue unchanged and
\* neither opens nor closes a stream.
C10_ResampleFailureDrops ==
    [][\A p \in Producers : \A snd \in Sounds : \A o \in Owners :
         ( /\ AddRead(p, snd, o)
           /\ snd.rate # DEFAULT_SAMPLE_RATE
           /\ ResampleLen(Len(snd.data), snd.rate) < 1 ) =>
            /\ ret' = [op |-> "add", exc |-> "ok"]
            /\ pc'[p] = "idle"
            /\ queue' = queue
            /\ stream' = stream
            /\ streams' = streams
      ]_vars

\* C10 witness: add has been called and returned, and nothing was queued
\* and no stream was ever opened: the clip was dropped.
C10_Witness ==
    /\ nadds >= 1
    /\ \A p \in Producers : pc[p] = "idle"
    /\ ret = [op |-> "add", exc |-> "ok"]
    /\ DOMAIN queue = {}
    /\ stream = None
    /\ \A s \in StreamIds : streams[s] = "unopened"

\* C11: add of a clip whose container is not single-channel 16-bit fails
\* with a format error raised to the caller; the clip is not appended to
\* the queue and no stream is opened for it.
C11_FormatRejected ==
    [][\A p \in Producers : \A wav \in Wavs : \A o \in Owners :
         ( /\ AddRead(p, WavRead(wav), o)
           /\ (wav.channels # 1 \/ wav.bits # 16) ) =>
            /\ ret' = [op |-> "add", exc |-> "FormatError"]
            /\ pc'[p] = "idle"
            /\ data'[p] = <<>>
      ]_vars

\* C12: a cancel acts on the queue in its del step alone, which runs under
\* the lock it took: no append falls between the start of a cancel and its
\* del, and in a step that is neither the del of a cancel of owner o nor
\* the queue swap of a pull, every buffer pending for o stays pending, in
\* place.  So a clip appended after a cancel has completed is removed only
\* by a pull or by a cancel whose del comes later.
C12_CancelDoesNotReachForward ==
    /\ [](\A p, q \in Producers : ~(pc[p] = "rm_del" /\ pc[q] = "add_append"))
    /\ [][\A o \in DOMAIN queue :
            \/ \E p \in Producers :
                  pc[p] = "rm_del" /\ owner[p] = o /\ pc'[p] = "idle"
            \/ \E s \in StreamIds : wpc[s] = "swap" /\ wpc'[s] = "mix"
            \/ /\ o \in DOMAIN queue'
               /\ Len(queue'[o]) >= Len(queue[o])
               /\ SubSeq(queue'[o], 1, Len(queue[o])) = queue[o]
         ]_vars

\* C12 witness: on one thread, a cancel has deleted an entry and returned,
\* and the add called after it has just appended its clip.
C12_Witness ==
    /\ pc[2] = "off"
    /\ pc[1] = "add_check"
    /\ ret = [op |-> "remove", exc |-> "ok"]
    /\ nadds = 2
    /\ DOMAIN queue # {}

\* C13: once close has been called there is no open stream and _stream
\* holds no handle; from then on no stream is opened, and a further close
\* returns without raising and changes nothing.
C13_ShutdownClosed ==
    /\ [](player = "terminated" =>
            /\ stream = None
            /\ \A s \in StreamIds : streams[s] \in {"unopened", "closed"})
    /\ [][player = "terminated" =>
            /\ streams' = streams
            /\ \A p \in Producers :
                  Close(p) => (ret' = [op |-> "close", exc |-> "ok"]
                               /\ stream' = stream /\ queue' = queue)
         ]_vars

\* C14: for the chunks a pull has captured and volumes V1 < V2, every
\* sample mixed at V2 is at least as large in magnitude as the one mixed at
\* V1, unless the sum at one of the two volumes leaves the 16-bit range.
C14_GainMonotone ==
    \A s \in StreamIds :
       (wpc[s] = "mix" /\ ~StackRaises(chunks[s])) =>
          LET cs == chunks[s]
              n == Len(cs)
              raw(v, k) == SumSeq([i \in 1..n |-> GainCast(cs[i].data[k] \div n, v)])
              abs(x) == IF x >= 0 THEN x ELSE -x
          IN  \A v1, v2 \in MixVolumes \cup {50} :
                 v1 < v2 =>
                    \A k \in 1..Len(cs[1].data) :
                       ( /\ raw(v1, k) \in -32768..32767
                         /\ raw(v2, k) \in -32768..32767 )
                       => abs(Mix(cs, v2)[k]) >= abs(Mix(cs, v1)[k])

\* C16: for n >= 1 chunks and a volume in 0..100, the sum of the chunks'
\* samples, each divided by n and scaled by the gain, lies in
\* -32768..32767, so the 16-bit sample the callback returns is that sum.
C16_NoOverflow ==
    [][\A s \in StreamIds :
         (wpc[s] = "mix" /\ wpc'[s] = "idle" /\ frame'[s].flag = paContinue) =>
            LET cs == chunks[s]
                n == Len(cs)
            IN  \A k \in 1..Len(frame'[s].data) :
                   LET sum == SumSeq([i \in 1..n |-> Scaled(cs[i].data[k], n, volume)])
                   IN  /\ sum \in -32768..32767
                       /\ frame'[s].data[k] = sum
      ]_vars

\* C15: in one pull with frame count F, a buffer of length L > F gives its
\* first F samples and is replaced, in its owner's list, by its suffix from
\* index F on; a buffer of length L <= F gives all its L samples and is
\* removed.  The samples given and the suffix kept make up the buffer, so
\* over successive pulls every sample is emitted once and in order.
C15_BufferConsumption ==
    [][\A s \in StreamIds :
         (wpc[s] = "swap" /\ wpc'[s] = "mix") =>
            \A o \in DOMAIN queue :
               LET long(b) == Len(b) > FrameCount
                   kept == SelectSeq(queue[o], long)
                   given(i) == CHOOSE c \in {chunks[s][j] : j \in 1..Len(chunks[s])} :
                                  c.owner = o /\ c.idx = i
                   left == IF o \in DOMAIN queue' THEN queue'[o] ELSE <<>>
               IN  /\ Len(left) = Len(kept)
                   /\ \A i \in 1..Len(kept) :
                         /\ Len(left[i]) = Len(kept[i]) - FrameCount
                         /\ \A k \in 1..Len(left[i]) :
                               left[i][k] = kept[i][FrameCount + k]
                   /\ \A i \in 1..Len(queue[o]) :
                         LET b == queue[o][i]
                             m == IF long(b) THEN FrameCount ELSE Len(b)
                         IN  /\ \E j \in 1..Len(chunks[s]) :
                                   chunks[s][j].owner = o /\ chunks[s][j].idx = i
                             /\ \A k \in 1..m : given(i).data[k] = b[k]
      ]_vars

\* C15 witness: a pull has replaced a buffer longer than FrameCount by its
\* suffix, and the chunk it gave is ready for the mix.
C15_Witness ==
    \E s \in StreamIds :
       /\ wpc[s] = "mix"
       /\ \E j \in 1..Len(chunks[s]) :
             LET c == chunks[s][j]
             IN  /\ c.owner \in DOMAIN queue
                 /\ c.data[FrameCount] # 0
                 /\ \E i \in 1..Len(queue[c.owner]) :
                       queue[c.owner][i][1] = c.data[FrameCount] + 1

\* C17: the callback holds the queue lock while it tests the queue, fills
\* chunks and new_queue and installs new_queue, and not while it mixes: in
\* every state in which a callback is at the mix, that callback does not
\* hold the lock.
C17_MixOutsideLock ==
    \A s \in StreamIds :
       /\ wpc[s] \in {"locked", "swap"} => queue_lock = Dev(s)
       /\ wpc[s] \in {"idle", "mix"} => queue_lock # Dev(s)

\* C17 witness: a producer holds the lock, about to append or delete, while
\* a callback is mixing the chunks it captured.
C17_Witness ==
    \E s \in StreamIds : \E p \in Producers :
       /\ wpc[s] = "mix"
       /\ chunks[s] # <<>>
       /\ queue_lock = p
       /\ pc[p] \in {"add_append", "rm_del"}

\* C18: a callback that passed the emptiness test has captured at least
\* one chunk when it reaches the mix; equivalently, no owner key of the
\* queue, or of a new_queue being filled, maps to an empty list.
C18_NonZeroChunks ==
    /\ \A s \in StreamIds : wpc[s] \in {"swap", "mix"} => Len(chunks[s]) >= 1
    /\ \A o \in DOMAIN queue : queue[o] # <<>>
    /\ \A s \in StreamIds : \A o \in DOMAIN new_queue[s] : new_queue[s][o] # <<>>

\* C18 witness: a callback is at the mix with a chunk of an owner whose
\* buffers this pull used up, so that the owner has no key any more.
C18_Witness ==
    \E s \in StreamIds :
       /\ wpc[s] = "mix"
       /\ \E j \in 1..Len(chunks[s]) : chunks[s][j].owner \notin DOMAIN queue
       /\ \A p \in Producers : pc[p] \in {"off", "idle"}
       /\ ret.op = "add"

\* C19: no clip is lost to the queue swap.  add's append puts the clip at
\* the end of its owner's list; no append or delete falls between the
\* start of the callback's loop and the swap; and the queue that the swap
\* replaces holds exactly the buffers the loop captured a chunk from, so
\* every clip appended so far was captured and every clip appended later
\* goes into the new queue.
C19_NoClipLostToSwap ==
    /\ [](\A s \in StreamIds : \A p \in Producers :
            ~(wpc[s] \in {"locked", "swap"} /\ pc[p] \in {"add_append", "rm_del"}))
    /\ [][/\ \A p \in Producers :
              (pc[p] = "add_append" /\ pc'[p] = "add_check") =>
                 /\ owner[p] \in DOMAIN queue'
                 /\ queue'[owner[p]][Len(queue'[owner[p]])] = data[p]
                 /\ \A o \in DOMAIN queue :
                       /\ o \in DOMAIN queue'
                       /\ SubSeq(queue'[o], 1, Len(queue[o])) = queue[o]
           /\ \A s \in StreamIds :
              (wpc[s] = "swap" /\ wpc'[s] = "mix") =>
                 /\ Len(chunks[s]) = SumSeq([o \in 1..2 |->
                                        IF o \in DOMAIN queue THEN Len(queue[o]) ELSE 0])
                 /\ \A o \in DOMAIN queue : \A i \in 1..Len(queue[o]) :
                       \E j \in 1..Len(chunks[s]) :
                          /\ chunks[s][j].owner = o
                          /\ chunks[s][j].idx = i
                          /\ chunks[s][j].data[1] = queue[o][i][1]
         ]_vars

\* C19 witness: while a callback is mixing the chunks it captured, an add
\* has appended a clip, which is in the queue untouched.
C19_Witness ==
    \E s \in StreamIds : \E p \in Producers : \E o \in DOMAIN queue :
       /\ wpc[s] = "mix"
       /\ chunks[s] # <<>>
       /\ pc[p] = "add_check"
       /\ queue[o][Len(queue[o])][1] = 10

\* C20: with an active stream, clips pending and no further add, every
\* pull that swaps the queue leaves fewer pending samples than it found,
\* and after finitely many pulls the queue is empty and the callback has
\* returned paComplete.
C20_DrainTerminates ==
    /\ [][\A s \in StreamIds :
            (wpc[s] = "swap" /\ wpc'[s] = "mix") =>
               PendingSamples(queue') < PendingSamples(queue)
         ]_vars
    /\ <>(DOMAIN queue = {} /\ \E s \in StreamIds : frame[s].flag = paComplete)

\* C20 witness: the clips that were pending have been pulled, the queue is
\* empty and the callback has returned paComplete.
C20_Witness ==
    \E s \in StreamIds :
       /\ DOMAIN queue = {}
       /\ streams[s] = "draining"
       /\ frame[s].flag = paComplete
       /\ nadds = MaxAdds
       /\ pc[2] = "off"

====
